---- MODULE Spec2Model ----
(***************************************************************************)
(* Model of the canonical-cla charm (src/src/charm.py, utils.py,           *)
(* secret.py): the environment builder, the Pebble layer reconciler, the   *)
(* status collection handler and the two operator actions.                 *)
(*                                                                         *)
(* Python values are modelled as follows: a dict is a function from        *)
(* strings, a str is a string, an int is an integer, None is the string    *)
(* NoneValue, a raised exception is the "raised" field of the record an    *)
(* operator returns ("" when nothing was raised).  A str the code takes    *)
(* apart is given as the sequence of its parts: the key of a secret        *)
(* content as its words and separators (<<"smtp", "-", "port">>), the      *)
(* value of a port as its characters (<<"5", "8", "7">>), the endpoints of *)
(* a relation as host, ":" and port.  The content of a secret is a dict    *)
(* whose order matters and is given as the sequence of its <<key, value>>  *)
(* pairs.  An operator that uses a computed value more than once binds it  *)
(* first (CHOOSE result \in {f(x) : x \in {value}} : TRUE), so that the    *)
(* value is computed once.                                                 *)
(***************************************************************************)
EXTENDS Integers, Sequences, FiniteSets, TLC

\* ------------------------------------------------------------------ bounds
\* number of distinct values the log-level option may take
NumVals == 2
\* cap of the counters kept by the observer variables
MaxCount == 2

\* ------------------------------------------------------------- dict helpers
NoneValue == "None"
EmptyDict == [k \in {} |-> ""]

\* Python truthiness of a str | int | None value: None, "" (also as the empty
\* sequence of characters) and 0 are false. The values are told apart by what
\* they print as, since a string and an integer cannot be compared.
Truthy(v) ==
    ToString(v) \notin {ToString(NoneValue), ToString(""), ToString(<<>>), ToString(0)}

\* a == b on two values that may be a str and an int
Same(a, b) == ToString(a) = ToString(b)

\* a == b on two dicts of services: the same services with the same fields, and
\* environments with the same names whose values are equal as Python values (a
\* str equals no int and nothing equals None but None)
SameServices(a, b) ==
    /\ DOMAIN a = DOMAIN b
    /\ \A n \in DOMAIN a :
         /\ DOMAIN a[n] = DOMAIN b[n]
         /\ \A k \in DOMAIN a[n] :
              IF k = "environment"
              THEN /\ DOMAIN a[n][k] = DOMAIN b[n][k]
                   /\ \A K \in DOMAIN a[n][k] : Same(a[n][k][K], b[n][k][K])
              ELSE a[n][k] = b[n][k]

\* dict.get(key) (None when the key is absent)
Get(d, k) == IF k \in DOMAIN d THEN d[k] ELSE NoneValue

\* dict.get(key, default)
GetOr(d, k, default) == IF k \in DOMAIN d THEN d[k] ELSE default

\* d.update(e) as it would be if the entries already in d were kept
update_keeps_existing(d, e) == d @@ e

\* d.update(e): the entries of e override those of d
Update(d, e) == e @@ d

\* --------------------------------------------------------------- constants
SERVICE_PORT == 8000
DATABASE_NAME == "canonical-cla"

\* the options of config.yaml as config_valid_values reads them, in file order:
\* <<name, type>>. The file is not among the sources: a plain option and a
\* secret option stand for the two kinds the code tells apart, and the three
\* proxy settings are the options get_proxy_dict looks up in the config.
ConfigYaml ==
    << <<"log-level", "string">>, <<"app-secrets", "secret">>,
       <<"http_proxy", "string">>, <<"https_proxy", "string">>,
       <<"no_proxy", "string">> >>

\* fields of secret.Secret without and with "| None"
SecretRequired ==
    {"secret_key", "github_oauth_client_id", "github_oauth_client_secret",
     "github_app_id", "github_app_private_key", "github_app_secret",
     "smtp_host", "smtp_port", "smtp_username", "smtp_password",
     "canonical_oidc_client_id", "canonical_oidc_client_secret"}
SecretOptional ==
    {"db_host", "db_port", "db_name", "db_username", "db_password",
     "canonical_oidc_server_url", "canonical_oidc_scope",
     "canonical_oidc_token_endpoint_auth_method"}
SecretFields == SecretRequired \cup SecretOptional

DbSecretKeys == <<"db_host", "db_port", "db_name", "db_username", "db_password">>

\* str.upper() on the names the charm upper-cases, and
\* k.replace("-", "_").replace(".", "_").upper() on the option names
Upper ==
    [secret_key |-> "SECRET_KEY",
     github_oauth_client_id |-> "GITHUB_OAUTH_CLIENT_ID",
     github_oauth_client_secret |-> "GITHUB_OAUTH_CLIENT_SECRET",
     github_app_id |-> "GITHUB_APP_ID",
     github_app_private_key |-> "GITHUB_APP_PRIVATE_KEY",
     github_app_secret |-> "GITHUB_APP_SECRET",
     smtp_host |-> "SMTP_HOST",
     smtp_port |-> "SMTP_PORT",
     smtp_username |-> "SMTP_USERNAME",
     smtp_password |-> "SMTP_PASSWORD",
     db_host |-> "DB_HOST",
     db_port |-> "DB_PORT",
     db_name |-> "DB_NAME",
     db_username |-> "DB_USERNAME",
     db_password |-> "DB_PASSWORD",
     canonical_oidc_client_id |-> "CANONICAL_OIDC_CLIENT_ID",
     canonical_oidc_client_secret |-> "CANONICAL_OIDC_CLIENT_SECRET",
     canonical_oidc_server_url |-> "CANONICAL_OIDC_SERVER_URL",
     canonical_oidc_scope |-> "CANONICAL_OIDC_SCOPE",
     canonical_oidc_token_endpoint_auth_method |->
         "CANONICAL_OIDC_TOKEN_ENDPOINT_AUTH_METHOD"]

EnvName ==
    [k \in {"log-level", "app-secrets", "http_proxy", "https_proxy", "no_proxy"} |->
        CASE k = "log-level" -> "LOG_LEVEL"
          [] k = "app-secrets" -> "APP_SECRETS"
          [] k = "http_proxy" -> "HTTP_PROXY"
          [] k = "https_proxy" -> "HTTPS_PROXY"
          [] k = "no_proxy" -> "NO_PROXY"]

\* v.startswith("secret:") on the values a config option may hold
SecretRefs == {"secret:s1"}
IsSecretRef(v) == v \in SecretRefs

\* ------------------------------------------------------------------- state
VARIABLES
    config,      \* charm.config: option name -> value
    secret,      \* the secret the config refers to: [found, content]
    revisions,   \* what the owner of the secret may turn it into (numbers of Revision)
    dbRel,       \* the database relation: [active, data]
    redisRel,    \* the redis relation: [active, data]
    tracing,     \* the otlp_http endpoint, "" when tracing is not ready
    loki,        \* the urls of the Loki push endpoints, in order
    osenv,       \* the JUJU_CHARM_*_PROXY variables of the hook's process
    plan,        \* the supervisor's plan: [services, checks, targets]
    proc,        \* what the running 'app' process was started with, NoProc if none
    last,        \* what the last handler did
    since,       \* observer: what the reconciles did since the last input change
    settled,     \* observer: the inputs stopped changing and the supervisor answers
    pydantic     \* the major version of the pydantic package the charm is built with

vars == <<config, secret, revisions, dbRel, redisRel, tracing, loki, osenv, plan,
          proc, last, since, settled, pydantic>>

\* ------------------------------------------------------------ secret.py
\* the fields of Secret in the order of their declaration
FieldOrder ==
    <<"secret_key", "github_oauth_client_id", "github_oauth_client_secret",
      "github_app_id", "github_app_private_key", "github_app_secret",
      "smtp_host", "smtp_port", "smtp_username", "smtp_password",
      "db_host", "db_port", "db_name", "db_username", "db_password",
      "canonical_oidc_client_id", "canonical_oidc_client_secret",
      "canonical_oidc_server_url", "canonical_oidc_scope",
      "canonical_oidc_token_endpoint_auth_method">>

\* the field of Secret an upper-cased key comes from
Lower == [K \in {Upper[f] : f \in SecretFields} |->
            CHOOSE f \in SecretFields : Upper[f] = K]

\* the string a sequence of parts spells
RECURSIVE Text(_)
Text(s) == IF s = <<>> THEN "" ELSE Head(s) \o Text(Tail(s))

\* str.replace(old, new) on a key given as its words and separators, for a
\* separator of one character
replace(s, old, new) == [i \in DOMAIN s |-> IF s[i] = old THEN new ELSE s[i]]

\* k.replace("-", "_").replace(".", "_"): the name a key of the content is
\* passed to Secret under
Normalise(k) == Text(replace(replace(k, "-", "_"), ".", "_"))

\* the dict comprehension of Secret.parse over the items of the content in
\* their order: when several keys become the same name, the value of the last
\* of them stays
RECURSIVE RenamedUpTo(_, _)
RenamedUpTo(kwargs, n) ==
    IF n = 0 THEN EmptyDict
    ELSE (Normalise(kwargs[n][1]) :> kwargs[n][2]) @@ RenamedUpTo(kwargs, n - 1)
Renamed(kwargs) == RenamedUpTo(kwargs, Len(kwargs))

\* the fields of Secret declared int or int | None
IntFields == {"smtp_port", "db_port"}

\* the decimal digits
Digit ==
    ("0" :> 0) @@ ("1" :> 1) @@ ("2" :> 2) @@ ("3" :> 3) @@ ("4" :> 4)
      @@ ("5" :> 5) @@ ("6" :> 6) @@ ("7" :> 7) @@ ("8" :> 8) @@ ("9" :> 9)

\* the number a sequence of decimal digits spells
RECURSIVE Number(_, _)
Number(s, n) ==
    IF s = <<>> THEN n ELSE Number(Tail(s), 10 * n + Digit[Head(s)])

\* the major versions of pydantic the charm may be built with: the code pins
\* none, and both provide BaseModel, ValidationError and .dict()
PydanticMajors == {1, 2}

\* the texts the contents of this model give an int field: decimal digits,
\* decimal digits after a blank, a word
PortTexts ==
    {<<"5", "8", "7">>, <<"5", "4", "3", "3">>, <<" ", "2", "5">>, <<"a", "b", "c">>}

\* the validation of a str for an int field, on the texts of PortTexts: the
\* blanks around the text are dropped, a text of decimal digits gives the
\* integer it spells, any other text is a ValueError. Both major versions read
\* these texts alike. What is read from a text with other white space, a sign,
\* underscores or a decimal point depends on the release of pydantic, which
\* the sources do not pin: such a text is no input of this model, and
\* int_validator is not defined on it.
int_validator ==
    [v \in PortTexts |->
        LET kept == {i \in DOMAIN v : v[i] # " "}
            text == IF kept = {} THEN <<>>
                    ELSE SubSeq(v, CHOOSE i \in kept : \A j \in kept : i <= j,
                                   CHOOSE i \in kept : \A j \in kept : j <= i)
        IN IF text # <<>> /\ \A i \in DOMAIN text : text[i] \in DOMAIN Digit
           THEN [raised |-> "", value |-> Number(text, 0)]
           ELSE [raised |-> "ValueError", value |-> 0]]

\* the fields a content has to give: under pydantic 1 a field annotated
\* "X | None" without a default is optional and defaults to None, under
\* pydantic 2 it is required
RequiredFields(major) == IF major = 1 THEN SecretRequired ELSE SecretFields

\* Secret.parse(**kwargs).dict() under a major version of pydantic, on a
\* content whose int fields hold texts of PortTexts: every declared field, a
\* str field as the string given, an int field as the integer its text spells,
\* None for a field the content does not give. A required field that is
\* missing or an int field whose text is no numeral is a ValidationError,
\* which is a ValueError. Keys that name no field are ignored.
Secret_validate(kwargs, major) ==
    LET validated(fields) ==
          LET given == DOMAIN fields \cap SecretFields
              missing == RequiredFields(major) \ given
              ints == [f \in given \cap IntFields |-> int_validator[fields[f]]]
          IN IF missing # {} \/ \E f \in DOMAIN ints : ints[f].raised # ""
             THEN [raised |-> "ValueError", value |-> EmptyDict]
             ELSE [raised |-> "",
                   value |-> [f \in SecretFields |->
                                IF f \notin given THEN NoneValue
                                ELSE IF f \in IntFields THEN ints[f].value
                                ELSE fields[f]] @@ EmptyDict]
    IN CHOOSE result \in {validated(fields) : fields \in {Renamed(kwargs)}} : TRUE


\* ---------------------------------------------------- the secret contents
\* a secret that model.get_secret(...) finds, with its content
Found(content) == [found |-> TRUE, content |-> content]

\* a secret that cannot be read (it was removed, or is not granted to the
\* application): model.get_secret(...) raises SecretNotFoundError, a ModelError
Unreadable == [found |-> FALSE, content |-> <<>>]

\* the words of each field of Secret
FieldWords ==
    [secret_key |-> <<"secret", "key">>,
     github_oauth_client_id |-> <<"github", "oauth", "client", "id">>,
     github_oauth_client_secret |-> <<"github", "oauth", "client", "secret">>,
     github_app_id |-> <<"github", "app", "id">>,
     github_app_private_key |-> <<"github", "app", "private", "key">>,
     github_app_secret |-> <<"github", "app", "secret">>,
     smtp_host |-> <<"smtp", "host">>,
     smtp_port |-> <<"smtp", "port">>,
     smtp_username |-> <<"smtp", "username">>,
     smtp_password |-> <<"smtp", "password">>,
     db_host |-> <<"db", "host">>,
     db_port |-> <<"db", "port">>,
     db_name |-> <<"db", "name">>,
     db_username |-> <<"db", "username">>,
     db_password |-> <<"db", "password">>,
     canonical_oidc_client_id |-> <<"canonical", "oidc", "client", "id">>,
     canonical_oidc_client_secret |-> <<"canonical", "oidc", "client", "secret">>,
     canonical_oidc_server_url |-> <<"canonical", "oidc", "server", "url">>,
     canonical_oidc_scope |-> <<"canonical", "oidc", "scope">>,
     canonical_oidc_token_endpoint_auth_method |->
         <<"canonical", "oidc", "token", "endpoint", "auth", "method">>]

\* the key of a secret content that names a field, its words joined by sep
RECURSIVE Joined(_, _)
Joined(words, sep) ==
    IF Len(words) <= 1 THEN words
    ELSE <<Head(words), sep>> \o Joined(Tail(words), sep)
Key(field, sep) == Joined(FieldWords[field], sep)

\* the values the contents of this model give
ValueOf ==
    [f \in SecretFields |->
        CASE f = "smtp_port" -> <<"5", "8", "7">>
          [] f = "db_host" -> "shost"
          [] f = "db_port" -> <<"5", "4", "3", "3">>
          [] f = "db_name" -> "sname"
          [] f = "db_username" -> "suser"
          [] f = "db_password" -> "spass"
          [] f = "canonical_oidc_server_url" -> "https://login"
          [] f = "canonical_oidc_scope" -> "openid"
          [] f = "canonical_oidc_token_endpoint_auth_method" -> "basic"
          [] OTHER -> "x"]

\* the content that gives the fields of a set, in the order of their
\* declaration, under hyphenated keys
ContentOf(fields) ==
    LET order == SelectSeq(FieldOrder, LAMBDA f : f \in fields)
    IN [i \in DOMAIN order |-> <<Key(order[i], "-"), ValueOf[order[i]]>>]

\* a content with the value of one field replaced
WithValue(content, field, value) ==
    [i \in DOMAIN content |->
        IF Normalise(content[i][1]) = field THEN <<content[i][1], value>> ELSE content[i]]

\* a content with the key of one field spelled with another separator
WithSeparator(content, field, sep) ==
    [i \in DOMAIN content |->
        IF Normalise(content[i][1]) = field THEN <<Key(field, sep), content[i][2]>>
        ELSE content[i]]

DbFields == {"db_host", "db_port", "db_name", "db_username", "db_password"}

\* a secret content with every required field
RequiredContent == ContentOf(SecretRequired)

\* a secret content with every field of Secret
FullContent == ContentOf(SecretFields)

\* what the secret takes: the required fields, these without the secret-key,
\* no content that can be read
Revision ==
    <<Found(RequiredContent), Found(ContentOf(SecretRequired \ {"secret_key"})),
      Unreadable>>
Published(numbers) == {Revision[i] : i \in numbers}
SecretChoices == Published(DOMAIN Revision)

\* the secrets app_environment and the status collection are read under: every
\* subset of the database fields next to the required ones, every field, a
\* port that is no numeral, a port written with blanks under a dotted key, a
\* database host given twice (the hyphenated key last), no secret
SecretDbChoices ==
    {Found(ContentOf(SecretRequired \cup fields)) : fields \in SUBSET DbFields}
      \cup {Found(FullContent),
            Found(WithValue(RequiredContent, "smtp_port", <<"a", "b", "c">>)),
            Found(WithValue(ContentOf(SecretRequired \cup DbFields), "db_port",
                            <<"a", "b", "c">>)),
            Found(WithSeparator(WithValue(FullContent, "smtp_port", <<" ", "2", "5">>),
                                "smtp_port", ".")),
            Found(<< <<Key("db_host", "_"), "uhost">> >> \o FullContent),
            Unreadable}

\* Secret.parse(**kwargs).dict() on each content of this model, under each
\* major version, computed once
ParsedContents ==
    [major \in PydanticMajors |->
        [kwargs \in {sec.content : sec \in SecretChoices \cup SecretDbChoices} |->
            Secret_validate(kwargs, major)] @@ EmptyDict]
      @@ EmptyDict

\* Secret.parse(**kwargs).dict() in the build at hand
Secret_parse(kwargs) ==
    IF kwargs \in DOMAIN ParsedContents[pydantic]
    THEN ParsedContents[pydantic][kwargs]
    ELSE Secret_validate(kwargs, pydantic)

\* ------------------------------------------------------------- utils.py
\* fetch_secrets: the content of every secret the config refers to, as
\* get_content(refresh=True) returns it at the time of the call, parsed, with
\* upper-cased keys
fetch_secrets(cfg, sec) ==
    LET upper(parsed) ==
            IF parsed.raised # ""
            THEN parsed
            ELSE [raised |-> "",
                  value |-> [K \in DOMAIN Lower |-> parsed.value[Lower[K]]]]
        referred == \E k \in DOMAIN cfg : IsSecretRef(cfg[k])
    IN IF referred /\ ~sec.found
       THEN [raised |-> "ModelError", value |-> EmptyDict]
       ELSE CHOOSE result \in
              {upper(parsed) :
                 parsed \in {Secret_parse(IF referred THEN sec.content ELSE <<>>)}} : TRUE

\* map_config_to_env_vars: the options that are no secret reference, renamed,
\* then the secret fields on top
map_config_to_env_vars(cfg, sec) ==
    LET plain == {k \in DOMAIN cfg : ~IsSecretRef(cfg[k])}
        env_mapped_config == [K \in {EnvName[k] : k \in plain} |->
                                 cfg[CHOOSE k \in plain : EnvName[k] = K]]
        merged(secrets) ==
            IF secrets.raised # ""
            THEN secrets
            ELSE [raised |-> "", value |-> Update(env_mapped_config, secrets.value)]
    IN CHOOSE result \in
           {merged(secrets) : secrets \in {fetch_secrets(cfg, sec)}} : TRUE

\* get_proxy_dict: None (here EmptyDict) when all three values are empty
get_proxy_dict(cfg, env) ==
    LET or(a, b) == IF a # "" THEN a ELSE b
        proxies ==
          [HTTP_PROXY |-> or(GetOr(cfg, "http_proxy", ""),
                             GetOr(env, "JUJU_CHARM_HTTP_PROXY", "")),
           HTTPS_PROXY |-> or(GetOr(cfg, "https_proxy", ""),
                              GetOr(env, "JUJU_CHARM_HTTPS_PROXY", "")),
           NO_PROXY |-> or(GetOr(cfg, "no_proxy", ""),
                           GetOr(env, "JUJU_CHARM_NO_PROXY", ""))]
    IN IF \A k \in DOMAIN proxies : proxies[k] = "" THEN EmptyDict ELSE proxies

\* ------------------------------------------------------------- charm.py
\* config_valid_values: every declared option is set and the secrets parse.
\* Of what fetch_secrets raises only ValueError is caught. "fetched" tells
\* whether the secret was read: an option that is not set ends the check
\* before.
config_valid_values(cfg, sec) ==
    LET unset == {i \in DOMAIN ConfigYaml : Get(cfg, ConfigYaml[i][1]) = NoneValue}
        first == CHOOSE i \in unset : \A j \in unset : i <= j
        resource_name == IF ConfigYaml[first][2] = "secret" THEN "Secret" ELSE "Config"
        fetched(secrets) ==
            IF secrets.raised = "ValueError"
            THEN [raised |-> "", valid |-> FALSE, fetched |-> TRUE,
                  message |-> "Error fetching secrets"]
            ELSE IF secrets.raised # ""
            THEN [raised |-> secrets.raised, valid |-> FALSE, fetched |-> TRUE,
                  message |-> ""]
            ELSE [raised |-> "", valid |-> TRUE, fetched |-> TRUE, message |-> ""]
    IN IF unset # {}
       THEN [raised |-> "", valid |-> FALSE, fetched |-> FALSE,
             message |-> resource_name \o " value " \o ConfigYaml[first][1]
                           \o " is not set"]
       ELSE CHOOSE result \in
              {fetched(secrets) : secrets \in {fetch_secrets(cfg, sec)}} : TRUE

\* get_relation: the first active relation of that name, None when there is none
get_relation(rel) == rel.active

\* str.split(sep) on a string given as its sequence of tokens
RECURSIVE Split(_, _)
Split(s, sep) ==
    IF \A i \in DOMAIN s : s[i] # sep
    THEN <<s>>
    ELSE LET i == CHOOSE j \in DOMAIN s :
                     s[j] = sep /\ \A m \in 1..(j - 1) : s[m] # sep
         IN <<SubSeq(s, 1, i - 1)>> \o Split(SubSeq(s, i + 1, Len(s)), sep)

\* DatabaseRequires.fetch_relation_data(): the data of the active relations
database_fetch_relation_data(rel) == IF rel.active THEN <<rel.data>> ELSE <<>>

\* fetch_postgres_relation_data: the five DB_* values from the secret when the
\* secret gives all five, else from the first relation that has a username
fetch_postgres_relation_data(cfg, sec, rel) ==
    LET from_relation(data, parts) ==
            IF "endpoints" \notin DOMAIN data
            THEN [raised |-> "KeyError", value |-> EmptyDict]
            ELSE IF Len(parts) # 2
            THEN [raised |-> "ValueError", value |-> EmptyDict]
            ELSE IF "password" \notin DOMAIN data
            THEN [raised |-> "KeyError", value |-> EmptyDict]
            ELSE [raised |-> "",
                  value |-> [DB_HOST |-> Text(parts[1]),
                             DB_PORT |-> Text(parts[2]),
                             DB_USERNAME |-> data["username"],
                             DB_PASSWORD |-> data["password"],
                             DB_DATABASE |-> DATABASE_NAME]]
        first_usable(relations, usable) ==
            IF usable = {}
            THEN [raised |-> "", value |-> EmptyDict]
            ELSE CHOOSE result \in
                   {from_relation(data, Split(GetOr(data, "endpoints", <<>>), ":")) :
                      data \in {relations[CHOOSE i \in usable :
                                             \A j \in usable : i <= j]}} : TRUE
        scan(relations) ==
            first_usable(relations,
                         {i \in DOMAIN relations :
                             /\ DOMAIN relations[i] # {}
                             /\ Truthy(Get(relations[i], "username"))})
        fetch(db_secret) ==
            IF db_secret.raised # ""
            THEN [raised |-> db_secret.raised, value |-> EmptyDict]
            ELSE IF \A i \in DOMAIN DbSecretKeys :
                        Truthy(Get(db_secret.value, DbSecretKeys[i]))
            THEN [raised |-> "",
                  value |-> [DB_HOST |-> db_secret.value["db_host"],
                             DB_PORT |-> db_secret.value["db_port"],
                             DB_USERNAME |-> db_secret.value["db_username"],
                             DB_PASSWORD |-> db_secret.value["db_password"],
                             DB_DATABASE |-> db_secret.value["db_name"]]]
            ELSE scan(database_fetch_relation_data(rel))
    IN CHOOSE result \in
           {fetch(db_secret) : db_secret \in {fetch_secrets(cfg, sec)}} : TRUE

\* postgres_relation_blocked as it would be if it looked the secret up under the
\* upper-cased keys fetch_secrets returns
postgres_relation_blocked_upper_keys(cfg, sec, rel) ==
    LET blocked(secrets) ==
            [raised |-> secrets.raised,
             value |-> /\ secrets.raised = ""
                       /\ ~(\A i \in DOMAIN DbSecretKeys :
                               Truthy(Get(secrets.value, Upper[DbSecretKeys[i]])))
                       /\ ~get_relation(rel)]
    IN CHOOSE result \in
           {blocked(secrets) : secrets \in {fetch_secrets(cfg, sec)}} : TRUE

\* postgres_relation_blocked: TRUE when it returns the BlockedStatus
postgres_relation_blocked(cfg, sec, rel) ==
    LET blocked(secrets) ==
            [raised |-> secrets.raised,
             value |-> /\ secrets.raised = ""
                       /\ ~(\A i \in DOMAIN DbSecretKeys :
                               Truthy(Get(secrets.value, DbSecretKeys[i])))
                       /\ ~get_relation(rel)]
    IN CHOOSE result \in
           {blocked(secrets) : secrets \in {fetch_secrets(cfg, sec)}} : TRUE

\* fetch_redis_relation_data as it would be if a hostname alone were enough
fetch_redis_hostname_only(rel) ==
    LET relation_data == IF rel.active THEN rel.data ELSE EmptyDict
    IN IF ~Truthy(Get(relation_data, "hostname")) THEN EmptyDict
       ELSE [K \in {"REDIS_HOST"}
                  \cup (IF "port" \in DOMAIN relation_data THEN {"REDIS_PORT"} ELSE {}) |->
               IF K = "REDIS_HOST" THEN relation_data["hostname"]
               ELSE relation_data["port"]]

\* fetch_redis_relation_data: None (here EmptyDict) unless hostname and port are there
fetch_redis_relation_data(rel) ==
    LET relation_data == IF rel.active THEN rel.data ELSE EmptyDict
        hostname == Get(relation_data, "hostname")
        port == Get(relation_data, "port")
    IN IF DOMAIN relation_data = {} THEN EmptyDict
       ELSE IF ~Truthy(hostname) \/ ~Truthy(port) THEN EmptyDict
       ELSE [REDIS_HOST |-> hostname, REDIS_PORT |-> port]

\* the runs of app_environment while the secret may change: the first read of
\* the secret returns one of the contents in begin and every later read one of
\* those in store, whatever the reads before it returned. A run is what the
\* property returns or raises and the reads it made, in order:
\* config_valid_values reads first, map_config_to_env_vars
\* second, fetch_postgres_relation_data third, and a run that ends early makes
\* no further read. The environment is {} when the config is invalid or a
\* dependency has no data.
app_environment_runs(cfg, begin, store, db, redis, trc, env) ==
    LET traced(env_vars) ==
            IF trc # ""
            THEN Update(env_vars, [OTEL_EXPORTER_OTLP_ENDPOINT |-> trc])
            ELSE env_vars
        proxied(env_vars, proxy_dict) ==
            IF DOMAIN proxy_dict # {} THEN Update(env_vars, proxy_dict) ELSE env_vars
        ends(raised, reads) == [raised |-> raised, value |-> EmptyDict, reads |-> reads]
        build(env_vars, db_data, redis_data, reads) ==
            IF db_data.raised # "" THEN ends(db_data.raised, reads)
            ELSE IF DOMAIN db_data.value = {} THEN ends("", reads)
            ELSE IF DOMAIN redis_data = {} THEN ends("", reads)
            ELSE [raised |-> "",
                  value |-> Update(
                              proxied(traced(Update(Update(env_vars.value, db_data.value),
                                                    redis_data)),
                                      get_proxy_dict(cfg, env)),
                              [PYTHONPATH |-> "/srv"]),
                  reads |-> reads]
        mapped(env_vars, reads) ==
            IF env_vars.raised # "" THEN {ends(env_vars.raised, reads)}
            ELSE UNION {{build(env_vars, db_data, redis_data, Append(reads, third)) :
                           db_data \in {fetch_postgres_relation_data(cfg, third, db)},
                           redis_data \in {fetch_redis_relation_data(redis)}} :
                          third \in store}
        checked(check, first) ==
            IF ~check.fetched THEN {ends("", <<>>)}
            ELSE IF check.raised # "" THEN {ends(check.raised, <<first>>)}
            ELSE IF ~check.valid THEN {ends("", <<first>>)}
            ELSE UNION {UNION {mapped(env_vars, <<first, second>>) :
                                 env_vars \in {map_config_to_env_vars(cfg, second)}} :
                          second \in store}
    IN UNION {UNION {checked(check, first) :
                       check \in {config_valid_values(cfg, first)}} :
                first \in begin}

\* app_environment while the secret stays as it is
app_environment(cfg, sec, db, redis, trc, env) ==
    CHOOSE run \in app_environment_runs(cfg, {sec}, {sec}, db, redis, trc, env) : TRUE

\* pebble_log_targets: one "loki-<index>" target per endpoint url
LokiName == <<"loki-0", "loki-1", "loki-2">>
pebble_log_targets(endpoints) ==
    LET loki_push_api_locations == SelectSeq(endpoints, LAMBDA url : url # "")
    IN [n \in {LokiName[i] : i \in DOMAIN loki_push_api_locations} |->
          [override |-> "replace", type |-> "loki", services |-> <<"all">>,
           location |-> loki_push_api_locations[
                            CHOOSE i \in DOMAIN loki_push_api_locations : LokiName[i] = n]]]

\* Service.to_dict() of the 'app' service: a field with an empty value is left out
AppService(environment) ==
    LET fields ==
          [k \in {"override", "startup", "working-dir", "command", "on-check-failure"} |->
              CASE k = "override" -> "replace"
                [] k = "startup" -> "enabled"
                [] k = "working-dir" -> "srv"
                [] k = "command" ->
                     "uvicorn app.main:app --host 0.0.0.0 --port "
                        \o ToString(SERVICE_PORT)
                        \o " --workers 4 --proxy-headers --forwarded-allow-ips '*'"
                [] k = "on-check-failure" -> "up: restart"]
    IN IF DOMAIN environment = {} THEN fields
       ELSE [k \in DOMAIN fields \cup {"environment"} |->
               IF k = "environment" THEN environment ELSE fields[k]]

\* the three health checks of the layer
LayerChecks ==
    [test |-> [override |-> "replace", level |-> ""],
     online |-> [override |-> "replace", level |-> "ready"],
     up |-> [override |-> "replace", level |-> "alive"]]

\* the runs of _pebble_layer while the secret may change: the layer built
\* from the inputs and from what each read of the secret returned
pebble_layer_runs(cfg, begin, store, db, redis, trc, env, endpoints) ==
    LET layer(environment) ==
            [raised |-> environment.raised,
             value |-> [services |-> [app |-> AppService(environment.value)],
                        targets |-> pebble_log_targets(endpoints),
                        checks |-> LayerChecks],
             reads |-> environment.reads]
    IN {layer(environment) :
          environment \in app_environment_runs(cfg, begin, store, db, redis, trc, env)}

\* _pebble_layer while the secret stays as it is
pebble_layer(cfg, sec, db, redis, trc, env, endpoints) ==
    CHOOSE run \in pebble_layer_runs(cfg, {sec}, {sec}, db, redis, trc, env, endpoints) : TRUE

\* ------------------------------------------------------------ the inputs
ValName == <<"v1", "v2", "v3", "v4">>
Vals == {ValName[i] : i \in 1..NumVals}

\* charm.config with every option of ConfigYaml set: the log level, the
\* reference to the secret, and the three proxy settings left empty
SetConfig(level) ==
    [k \in {ConfigYaml[i][1] : i \in DOMAIN ConfigYaml} |->
        CASE k = "log-level" -> level
          [] k = "app-secrets" -> "secret:s1"
          [] OTHER -> ""]

\* charm.config while the options of a set are not set
Unset(cfg, names) == [k \in DOMAIN cfg \ names |-> cfg[k]]

\* the states of the database relation: absent, joined without data, with
\* credentials but no endpoints yet, complete
DbChoices ==
    {[active |-> FALSE, data |-> EmptyDict],
     [active |-> TRUE, data |-> EmptyDict],
     [active |-> TRUE, data |-> [username |-> "ruser", password |-> "rpass"]],
     [active |-> TRUE,
      data |-> [username |-> "ruser", password |-> "rpass",
                endpoints |-> <<"rhost", ":", "5432">>]]}

\* the states of the redis relation: absent, joined without data, complete
RedisChoices ==
    {[active |-> FALSE, data |-> EmptyDict],
     [active |-> TRUE, data |-> [hostname |-> "redis"]],
     [active |-> TRUE, data |-> [hostname |-> "redis", port |-> "6379"]]}

\* the event objects _update_layer_and_restart is called with
Events == {"None", "PebbleReadyEvent", "EndpointChangedEvent"}

\* the faults of a supervisor call that _update_layer_and_restart catches
PebbleFaults == {"ConnectionError", "APIError"}

\* the ways replan() and restart() fail while they wait for the change they
\* started: the change ended in an error (the service did not stop or did not
\* start), or it did not end in time. _update_layer_and_restart catches neither.
ChangeFaults == {"ChangeError", "TimeoutError"}

\* ------------------------------------------------------- the supervisor
EmptyPlan == [services |-> EmptyDict, checks |-> EmptyDict, targets |-> EmptyDict]
NoProc == [running |-> FALSE, service |-> EmptyDict]

\* isinstance(v, str), told by what the value prints as; None, which the model
\* writes as the string NoneValue, is no str
IsStr(v) == ~Same(v, NoneValue) /\ Head(ToString(v)) = "\""

\* the text the supervisor holds for a value of an environment. The supervisor
\* keeps the environment of a service as a map from names to strings; a layer
\* is sent to it as YAML and the plan is read back as YAML. A str comes back as
\* it was, an int as its decimal text (587 as '587'), None as the empty string.
Held(v) == IF Same(v, NoneValue) THEN "" ELSE IF IsStr(v) THEN v ELSE ToString(v)

\* the services of a layer as the supervisor holds them
HeldServices(services) ==
    [n \in DOMAIN services |->
        [k \in DOMAIN services[n] |->
            IF k = "environment"
            THEN [K \in DOMAIN services[n][k] |-> Held(services[n][k][K])]
            ELSE services[n][k]]]

\* Container.add_layer("app", layer, combine=True): every service, check and log
\* target of the layer replaces the one of that name ("override": "replace")
add_layer(p, layer) ==
    [services |-> Update(p.services, HeldServices(layer.services)),
     checks |-> Update(p.checks, layer.checks),
     targets |-> Update(p.targets, layer.targets)]

\* Container.replan() and Container.restart("app"): the process runs what the
\* plan says
Started(p) == [running |-> TRUE, service |-> p.services["app"]]

\* ------------------------------------------------------------ observers
Idle == [h |-> "none", event |-> "None", calls |-> <<>>, raised |-> "",
         caught |-> "", before |-> EmptyPlan, raced |-> FALSE,
         statuses |-> <<>>, result |-> "", message |-> "", env |-> EmptyDict,
         outcome |-> ""]

Bump(n) == IF n < MaxCount THEN n + 1 ELSE n

\* the services the current inputs ask for; EmptyDict when building them raises
Desired(cfg, sec, db, redis, trc, env, endpoints) ==
    LET services(layer) == IF layer.raised # "" THEN EmptyDict ELSE layer.value.services
    IN CHOOSE result \in
           {services(layer) :
              layer \in {pebble_layer(cfg, sec, db, redis, trc, env, endpoints)}} : TRUE

\* two services dicts that differ in the value of exactly one environment variable
OneVariableApart(a, b) ==
    /\ "app" \in DOMAIN a /\ "app" \in DOMAIN b
    /\ "environment" \in DOMAIN a["app"] /\ "environment" \in DOMAIN b["app"]
    /\ DOMAIN a["app"]["environment"] = DOMAIN b["app"]["environment"]
    /\ Cardinality({k \in DOMAIN a["app"]["environment"] :
                       ~Same(a["app"]["environment"][k],
                             b["app"]["environment"][k])}) = 1

\* what an input change leaves for the observers: the last handler is forgotten
\* and the counters restart
InputChanged(cfg, sec, db, redis) ==
    LET restarted(single) ==
            [on |-> TRUE, runs |-> 0, adds |-> 0, restarts |-> 0,
             clean |-> TRUE, tick |-> since.tick, single |-> single]
    IN /\ last' = Idle
       /\ IF ~since.on
          THEN since' = since
          ELSE IF ~(/\ proc.running
                    /\ "app" \in DOMAIN plan.services
                    /\ proc.service = plan.services["app"])
          THEN since' = restarted(FALSE)
          ELSE \E old \in {Desired(config, secret, dbRel, redisRel, tracing, osenv, loki)} :
                 IF plan.services # HeldServices(old)
                 THEN since' = restarted(FALSE)
                 ELSE \E new \in {Desired(cfg, sec, db, redis, tracing, osenv, loki)} :
                        since' = restarted(OneVariableApart(old, new))

\* the state after the charm is deployed: default config, the secret granted,
\* no relation joined, nothing in the supervisor's plan
Deployed ==
    /\ pydantic \in PydanticMajors
    /\ config = SetConfig("v1")
    /\ secret = Found(RequiredContent)
    /\ dbRel = [active |-> FALSE, data |-> EmptyDict]
    /\ redisRel = [active |-> FALSE, data |-> EmptyDict]
    /\ tracing = ""
    /\ loki = <<>>
    /\ osenv = EmptyDict
    /\ plan = EmptyPlan
    /\ proc = NoProc
    /\ last = Idle
    /\ settled = FALSE

NoCount == [on |-> FALSE, runs |-> 0, adds |-> 0, restarts |-> 0, clean |-> TRUE,
            single |-> FALSE, tick |-> 0]

\* the charm while the owner of the secret changes it, between two handlers
\* and while one runs
Init == Deployed /\ revisions = DOMAIN Revision /\ since = NoCount

\* ------------------------------------------------------- input changes
\* the operator sets or unsets the log-level option
ConfigChanged ==
    /\ ~settled
    /\ \E cfg \in {SetConfig(v) : v \in Vals}
                  \cup {Unset(SetConfig("v1"), {"log-level"})} :
         /\ cfg # config
         /\ config' = cfg
         /\ InputChanged(cfg, secret, dbRel, redisRel)
    /\ UNCHANGED <<secret, revisions, dbRel, redisRel, tracing, loki, osenv, plan, proc, settled, pydantic>>

\* the owner changes the content of the secret, or removes it
SecretChanged ==
    /\ ~settled
    /\ \E sec \in Published(revisions) :
         /\ sec # secret
         /\ secret' = sec
         /\ InputChanged(config, sec, dbRel, redisRel)
    /\ UNCHANGED <<config, revisions, dbRel, redisRel, tracing, loki, osenv, plan, proc, settled,
                   pydantic>>

\* the database relation is joined, filled or removed
DatabaseChanged ==
    /\ ~settled
    /\ \E db \in DbChoices :
         /\ db # dbRel
         /\ dbRel' = db
         /\ InputChanged(config, secret, db, redisRel)
    /\ UNCHANGED <<config, secret, revisions, redisRel, tracing, loki, osenv, plan, proc, settled, pydantic>>

\* the redis relation is joined, filled or removed
RedisChanged ==
    /\ ~settled
    /\ \E redis \in RedisChoices :
         /\ redis # redisRel
         /\ redisRel' = redis
         /\ InputChanged(config, secret, dbRel, redis)
    /\ UNCHANGED <<config, secret, revisions, dbRel, tracing, loki, osenv, plan, proc, settled, pydantic>>

\* ------------------------------------------------------------- handlers
\* what a reconcile adds to the counters kept since the last input change
Counted(calls, caught) ==
    IF ~since.on
    THEN [since EXCEPT !.tick = IF settled THEN 1 - since.tick ELSE since.tick]
    ELSE
    [on |-> TRUE,
     tick |-> IF settled THEN 1 - since.tick ELSE since.tick,
     runs |-> Bump(since.runs),
     adds |-> IF \E i \in DOMAIN calls : calls[i] = "add_layer"
              THEN Bump(since.adds) ELSE since.adds,
     restarts |-> IF \E i \in DOMAIN calls : calls[i] \in {"replan", "restart"}
                  THEN Bump(since.restarts) ELSE since.restarts,
     clean |-> since.clean /\ caught = "",
     single |-> since.single]

\* .to_dict().get("services", {}): the part of the plan and of the layer that
\* _update_layer_and_restart compares
compared(d) == d.services

\* the call that follows add_layer as it would be if every trigger restarted
always_restart(event) == "restart"

\* if event and isinstance(event, ops.PebbleReadyEvent): replan, else restart
replan_or_restart(event) ==
    IF event # "None" /\ event = "PebbleReadyEvent" THEN "replan" ELSE "restart"

\* what a read of the secret may return once a handler has begun: what the
\* secret holds, or what its owner turns it into in the meantime. The first
\* read of a handler returns what the secret holds (a change before it is a
\* step of its own, SecretChanged).
Store == IF settled THEN {secret} ELSE {secret} \cup Published(revisions)

\* what the secret holds when a handler that made these reads ends
Seen(reads) == IF reads = <<>> THEN secret ELSE reads[Len(reads)]

\* a read of the handler returned another content than the secret held when
\* the handler started
Raced(reads) == \E i \in DOMAIN reads : reads[i] # secret

\* the reconciler as it would be without the comparison: it always applies
update_layer_without_compare(event) ==
    \E layer \in {pebble_layer(config, secret, dbRel, redisRel, tracing, osenv, loki)} :
      /\ layer.raised = ""
      /\ last' = [Idle EXCEPT !.h = "reconcile", !.event = event,
                              !.calls = <<"get_plan", "add_layer", "restart">>,
                              !.before = plan]
      /\ since' = Counted(<<"get_plan", "add_layer", "restart">>, "")
      /\ plan' = add_layer(plan, layer.value)
      /\ proc' = Started(plan')
      /\ secret' = secret

\* the reconciler as it would be if it compared the log targets as well as the
\* services
update_layer_compares_targets(event) ==
    \E layer \in {pebble_layer(config, secret, dbRel, redisRel, tracing, osenv, loki)} :
      /\ layer.raised = ""
      /\ secret' = secret
      /\ IF /\ SameServices(compared(plan), compared(layer.value))
            /\ plan.targets = layer.value.targets
         THEN /\ last' = [Idle EXCEPT !.h = "reconcile", !.event = event,
                                      !.calls = <<"get_plan">>, !.before = plan]
              /\ since' = Counted(<<"get_plan">>, "")
              /\ UNCHANGED <<plan, proc>>
         ELSE /\ last' = [Idle EXCEPT !.h = "reconcile", !.event = event,
                                      !.calls = <<"get_plan", "add_layer", "restart">>,
                                      !.before = plan]
              /\ since' = Counted(<<"get_plan", "add_layer", "restart">>, "")
              /\ plan' = add_layer(plan, layer.value)
              /\ proc' = Started(plan')

\* _update_layer_and_restart(event): add the layer and replan or restart when
\* the services of the plan differ from those of the layer built now. The
\* layer is built once to be compared and, after get_plan, once more to be
\* added; each build reads the secret anew, so the layer that is added is not
\* the layer that was compared when the secret changed in between, and the
\* second build can raise what the first did not. A replan or restart that
\* fails with one of ChangeFaults leaves the handler as an exception after
\* add_layer changed the plan; the process is then as it was (the change
\* failed before the process was stopped) or is not running (it was stopped
\* and did not start).
update_layer_and_restart(event) ==
    \E layer \in pebble_layer_runs(config, {secret}, Store, dbRel, redisRel, tracing,
                                    osenv, loki) :
      LET new_layer_services == compared(layer.value)
          services == compared(plan)
          second == replan_or_restart(event)
          faults == IF settled THEN {} ELSE PebbleFaults
          change_faults == IF settled THEN {} ELSE ChangeFaults
          ended(calls, caught, raised, reads) ==
              /\ last' = [Idle EXCEPT !.h = "reconcile", !.event = event,
                                      !.calls = calls, !.caught = caught,
                                      !.raised = raised, !.before = plan,
                                      !.raced = Raced(reads)]
              /\ since' = Counted(calls, IF caught # "" THEN caught
                                         ELSE IF calls = <<>> THEN "" ELSE raised)
              /\ secret' = Seen(reads)
          done(calls, caught, reads) == ended(calls, caught, "", reads)
      IN \/ /\ layer.raised # ""
            /\ ended(<<>>, "", layer.raised, layer.reads)
            /\ UNCHANGED <<plan, proc>>
         \/ /\ layer.raised = ""
            /\ \E e \in faults : done(<<"get_plan">>, e, layer.reads)
            /\ UNCHANGED <<plan, proc>>
         \/ /\ layer.raised = ""
            /\ SameServices(services, new_layer_services)
            /\ done(<<"get_plan">>, "", layer.reads)
            /\ UNCHANGED <<plan, proc>>
         \/ /\ layer.raised = ""
            /\ ~SameServices(services, new_layer_services)
            /\ \E added \in pebble_layer_runs(config, Store, Store, dbRel, redisRel,
                                              tracing, osenv, loki) :
                 \E reads \in {layer.reads \o added.reads} :
                   \/ /\ added.raised # ""
                      /\ ended(<<"get_plan">>, "", added.raised, reads)
                      /\ UNCHANGED <<plan, proc>>
                   \/ /\ added.raised = ""
                      /\ \E e \in faults : done(<<"get_plan", "add_layer">>, e, reads)
                      /\ UNCHANGED <<plan, proc>>
                   \/ /\ added.raised = ""
                      /\ \E e \in faults : done(<<"get_plan", "add_layer", second>>, e, reads)
                      /\ plan' = add_layer(plan, added.value)
                      /\ UNCHANGED proc
                   \/ /\ added.raised = ""
                      /\ \E e \in change_faults :
                           ended(<<"get_plan", "add_layer", second>>, "", e, reads)
                      /\ plan' = add_layer(plan, added.value)
                      /\ proc' \in {proc, NoProc}
                   \/ /\ added.raised = ""
                      /\ done(<<"get_plan", "add_layer", second>>, "", reads)
                      /\ plan' = add_layer(plan, added.value)
                      /\ proc' = Started(plan')

\* the observers of app_pebble_ready, config_changed / database / redis events
\* and the tracing endpoint events
Reconcile ==
    /\ \E event \in Events : update_layer_and_restart(event)
    /\ UNCHANGED <<config, revisions, dbRel, redisRel, tracing, loki, osenv, settled,
                   pydantic>>

\* _on_collect_status: the first failing check decides the status. The secret
\* is read by config_valid_values, by postgres_relation_blocked and by
\* fetch_postgres_relation_data, each time anew.
on_collect_status ==
    \E first \in {secret} :
    \E check \in {config_valid_values(config, first)} :
      LET faults == (IF settled THEN {} ELSE PebbleFaults)
                      \cup (IF "app" \in DOMAIN plan.services THEN {} ELSE {"ModelError"})
          one == IF check.fetched THEN <<first>> ELSE <<>>
          ended(calls, raised, caught, statuses, reads) ==
              /\ last' = [Idle EXCEPT !.h = "collect-status", !.calls = calls,
                                      !.raised = raised, !.caught = caught,
                                      !.statuses = statuses, !.raced = Raced(reads)]
              /\ secret' = Seen(reads)
          add_status(calls, caught, kind, message, reads) ==
              ended(calls, "", caught, <<[kind |-> kind, message |-> message]>>, reads)
          upto_db == <<"config_valid_values", "get_service", "postgres_relation_blocked">>
          upto_redis == upto_db \o <<"fetch_postgres_relation_data", "get_relation">>
      IN \/ /\ check.raised # ""
            /\ ended(<<"config_valid_values">>, check.raised, "", <<>>, one)
         \/ /\ check.raised = ""
            /\ ~check.valid
            /\ add_status(<<"config_valid_values">>, "", "Blocked",
                          "Config values are not valid: " \o check.message, one)
         \/ /\ check.valid
            /\ \E e \in faults :
                 add_status(<<"config_valid_values", "get_service">>, e, "Maintenance",
                            "Waiting for Pebble in workload container", one)
         \/ /\ check.valid
            /\ "app" \in DOMAIN plan.services
            /\ \E second \in Store :
               \E db_blocked_status \in {postgres_relation_blocked(config, second, dbRel)} :
                 \/ /\ db_blocked_status.raised # ""
                    /\ ended(upto_db, db_blocked_status.raised, "", <<>>, <<first, second>>)
                 \/ /\ db_blocked_status.raised = ""
                    /\ db_blocked_status.value
                    /\ add_status(upto_db, "", "Blocked",
                                  "Waiting relation to database,  run 'juju integrate postgresql-k8s canonical-cla' or provide db secret",
                                  <<first, second>>)
                 \/ /\ db_blocked_status.raised = ""
                    /\ ~db_blocked_status.value
                    /\ \E third \in Store :
                       \E db_data \in {fetch_postgres_relation_data(config, third, dbRel)},
                          redis_data \in {fetch_redis_relation_data(redisRel)},
                          reads \in {<<first, second, third>>} :
                         \/ /\ db_data.raised # ""
                            /\ ended(upto_db \o <<"fetch_postgres_relation_data">>,
                                     db_data.raised, "", <<>>, reads)
                         \/ /\ db_data.raised = ""
                            /\ DOMAIN db_data.value = {}
                            /\ add_status(upto_db \o <<"fetch_postgres_relation_data">>, "",
                                          "Waiting", "Waiting for database relation", reads)
                         \/ /\ db_data.raised = ""
                            /\ DOMAIN db_data.value # {}
                            /\ ~get_relation(redisRel)
                            /\ add_status(upto_redis, "", "Blocked",
                                          "Waiting relation to redis,  run 'juju relate redis-k8s:redis canonical-cla:redis'",
                                          reads)
                         \/ /\ db_data.raised = ""
                            /\ DOMAIN db_data.value # {}
                            /\ get_relation(redisRel)
                            /\ DOMAIN redis_data = {}
                            /\ add_status(upto_redis \o <<"fetch_redis_relation_data">>, "",
                                          "Waiting", "Waiting for redis relation", reads)
                         \/ /\ db_data.raised = ""
                            /\ DOMAIN db_data.value # {}
                            /\ get_relation(redisRel)
                            /\ DOMAIN redis_data # {}
                            /\ ~proc.running
                            /\ add_status(upto_redis
                                            \o <<"fetch_redis_relation_data", "is_running">>,
                                          "", "Maintenance",
                                          "Waiting for the service to start up", reads)
                         \/ /\ db_data.raised = ""
                            /\ DOMAIN db_data.value # {}
                            /\ get_relation(redisRel)
                            /\ DOMAIN redis_data # {}
                            /\ proc.running
                            /\ add_status(upto_redis
                                            \o <<"fetch_redis_relation_data", "is_running">>,
                                          "", "Active", "", reads)

CollectStatus ==
    /\ on_collect_status
    /\ UNCHANGED <<config, revisions, dbRel, redisRel, tracing, loki, osenv, plan, proc,
                   since, settled, pydantic>>

\* the ways Container.exec(...).wait_output() ends
ExecOutcomes == {"ok", "ExecError", "ChangeError", "ConnectionError", "APIError"}

\* _on_migrate_db_action: run alembic in the workload container
on_migrate_db_action ==
    \E environment \in
        app_environment_runs(config, {secret}, Store, dbRel, redisRel, tracing, osenv) :
    LET finished(calls, raised, caught, result, message) ==
            [Idle EXCEPT !.h = "migrate-db", !.calls = calls, !.raised = raised,
                         !.caught = caught, !.result = result, !.message = message,
                         !.raced = Raced(environment.reads)]
        ended(calls, raised, caught, result, message) ==
            last' = [finished(calls, raised, caught, result, message)
                       EXCEPT !.outcome = IF caught # "" THEN caught
                                          ELSE IF raised # "" THEN raised ELSE "ok"]
    IN /\ secret' = Seen(environment.reads)
       /\ \/ /\ environment.raised # ""
             /\ last' = finished(<<>>, environment.raised, "", "", "")
          \/ /\ environment.raised = ""
             /\ \E outcome \in IF settled THEN {"ok", "ExecError", "ChangeError"}
                               ELSE ExecOutcomes :
                  CASE outcome = "ok" ->
                         ended(<<"exec">>, "", "", "success",
                               "Migrations completed successfully")
                    [] outcome = "ExecError" ->
                         ended(<<"exec">>, "", outcome, "failed",
                               "Migration command failed")
                    [] outcome = "ChangeError" ->
                         ended(<<"exec">>, "", outcome, "failed",
                               "Failed to run migrations")
                    [] OTHER -> ended(<<"exec">>, outcome, "", "", "")

\* the migrate-db action as it would be if it stopped the service to migrate
MigrateDbStopsService ==
    /\ on_migrate_db_action
    /\ proc' = NoProc
    /\ UNCHANGED <<config, revisions, dbRel, redisRel, tracing, loki, osenv, plan,
                   since, settled, pydantic>>

MigrateDb ==
    /\ on_migrate_db_action
    /\ UNCHANGED <<config, revisions, dbRel, redisRel, tracing, loki, osenv, plan, proc,
                   since, settled, pydantic>>

\* the ways Container.exec(...) ends when its result is not waited for: the
\* process was started (and exits with zero, "ok", or not, "ExecError", which
\* exec() does not see), or exec() raised
AuditOutcomes == {"ok", "ExecError", "ModelError", "ChangeError", "ConnectionError",
                  "APIError"}

\* _on_audit_logs_action: start the audit script in the workload container.
\* exec() returns once the process is started and the handler never waits for
\* it, so how the script exits is not seen by the handler. The handler catches
\* ModelError and nothing else.
on_audit_logs_action ==
    \E environment \in
        app_environment_runs(config, {secret}, Store, dbRel, redisRel, tracing, osenv) :
    LET ended(calls, raised, caught, result, message, outcome) ==
            last' = [Idle EXCEPT !.h = "audit-logs", !.calls = calls, !.raised = raised,
                                 !.caught = caught, !.result = result,
                                 !.message = message, !.outcome = outcome,
                                 !.raced = Raced(environment.reads)]
    IN /\ secret' = Seen(environment.reads)
       /\ \/ /\ environment.raised = "ModelError"
             /\ ended(<<>>, "", "ModelError", "failed", "Failed to get logs", "")
          \/ /\ environment.raised \notin {"", "ModelError"}
             /\ ended(<<>>, environment.raised, "", "", "", "")
          \/ /\ environment.raised = ""
             /\ \E outcome \in IF settled THEN {"ok", "ExecError"} ELSE AuditOutcomes :
                  CASE outcome \in {"ok", "ExecError"} ->
                         ended(<<"exec">>, "", "", "success", "", outcome)
                    [] outcome = "ModelError" ->
                         ended(<<"exec">>, "", outcome, "failed", "Failed to get logs",
                               outcome)
                    [] OTHER -> ended(<<"exec">>, outcome, "", "", "", outcome)

AuditLogs ==
    /\ on_audit_logs_action
    /\ UNCHANGED <<config, revisions, dbRel, redisRel, tracing, loki, osenv, plan, proc,
                   since, settled, pydantic>>

Next ==
    \/ ConfigChanged
    \/ SecretChanged
    \/ DatabaseChanged
    \/ RedisChanged
    \/ Reconcile
    \/ CollectStatus
    \/ MigrateDb
    \/ AuditLogs

Spec == Init /\ [][Next]_vars

\* the reconciler alone, with the counters of the observer switched on
InitCount == Deployed /\ revisions = {} /\ since = [NoCount EXCEPT !.on = TRUE]

NextCount ==
    \/ ConfigChanged
    \/ DatabaseChanged
    \/ RedisChanged
    \/ Reconcile

CountSpec == InitCount /\ [][NextCount]_vars

\* the reconciler with resolved dependencies, until the inputs settle: from then
\* on no input changes and no supervisor call fails, and reconcile events keep
\* being delivered
InitFair ==
    /\ pydantic \in PydanticMajors
    /\ config = SetConfig("v1")
    /\ secret = Found(FullContent)
    /\ revisions = {}
    /\ dbRel = [active |-> TRUE,
                data |-> [username |-> "ruser", password |-> "rpass",
                          endpoints |-> <<"rhost", ":", "5432">>]]
    /\ redisRel = [active |-> TRUE, data |-> [hostname |-> "redis", port |-> "6379"]]
    /\ tracing = ""
    /\ loki = <<>>
    /\ osenv = EmptyDict
    /\ plan = EmptyPlan
    /\ proc = NoProc
    /\ last = Idle
    /\ since = NoCount
    /\ settled = FALSE

Settle ==
    /\ ~settled
    /\ settled' = TRUE
    /\ UNCHANGED <<config, secret, revisions, dbRel, redisRel, tracing, loki, osenv, plan, proc,
                   last, since, pydantic>>

NextFair ==
    \/ ConfigChanged
    \/ Reconcile
    \/ Settle

FairSpec == InitFair /\ [][NextFair]_vars /\ WF_vars(Reconcile)

\* app_environment on its own: the inputs are drawn once and the property is read
InitEnv ==
    /\ pydantic \in PydanticMajors
    /\ config \in {SetConfig(v) : v \in Vals}
    /\ secret \in SecretDbChoices
    /\ revisions = {}
    /\ dbRel \in DbChoices
    /\ redisRel \in RedisChoices
    /\ tracing \in {"", "http://tempo:4318"}
    /\ loki = <<>>
    /\ osenv \in {EmptyDict, [JUJU_CHARM_HTTP_PROXY |-> "http://proxy:3128"]}
    /\ plan = EmptyPlan
    /\ proc = NoProc
    /\ last = Idle
    /\ since = NoCount
    /\ settled = FALSE

ReadEnvironment ==
    /\ last.h = "none"
    /\ \E environment \in
           app_environment_runs(config, {secret}, Store, dbRel, redisRel, tracing, osenv) :
         /\ last' = [Idle EXCEPT !.h = "app_environment", !.raised = environment.raised,
                                 !.env = environment.value,
                                 !.raced = Raced(environment.reads)]
         /\ secret' = Seen(environment.reads)
    /\ UNCHANGED <<config, revisions, dbRel, redisRel, tracing, loki, osenv, plan, proc,
                   since, settled, pydantic>>

NextEnv == ReadEnvironment

EnvSpec == InitEnv /\ [][NextEnv]_vars

\* app_environment where a variable is given by more than one stage: the
\* secret and the database relation both give DB_HOST, DB_PORT, DB_USERNAME and
\* DB_PASSWORD, the proxy options of the config and the proxy dict both give
\* the proxy variables
CollidingConfigs ==
    {Update(SetConfig("v1"), proxy) :
        proxy \in {EmptyDict, [http_proxy |-> "http://cfg:3128"],
                   [https_proxy |-> "https://cfg:3128"],
                   [http_proxy |-> "http://cfg:3128", no_proxy |-> "localhost"]}}

InitOrder ==
    /\ pydantic \in PydanticMajors
    /\ config \in CollidingConfigs
    /\ secret \in {Found(RequiredContent), Found(ContentOf(SecretRequired \cup DbFields)),
                   Found(FullContent)}
    /\ revisions = {}
    /\ dbRel \in DbChoices
    /\ redisRel \in RedisChoices
    /\ tracing \in {"", "http://tempo:4318"}
    /\ loki = <<>>
    /\ osenv \in {EmptyDict, [JUJU_CHARM_HTTP_PROXY |-> "http://proxy:3128"]}
    /\ plan = EmptyPlan
    /\ proc = NoProc
    /\ last = Idle
    /\ since = NoCount
    /\ settled = FALSE

NextOrder == ReadEnvironment

OrderSpec == InitOrder /\ [][NextOrder]_vars

\* app_environment under every combination of the three proxy options of the
\* config (not set, empty, set) and of the three JUJU_CHARM_*_PROXY variables
\* of the hook's process (not set, empty, set), with resolved dependencies
ProxyOptions == <<"http_proxy", "https_proxy", "no_proxy">>
ProxyOverrides ==
    <<"JUJU_CHARM_HTTP_PROXY", "JUJU_CHARM_HTTPS_PROXY", "JUJU_CHARM_NO_PROXY">>
ProxyVariables == <<"HTTP_PROXY", "HTTPS_PROXY", "NO_PROXY">>

\* the dicts over a subset of the given names whose values are "" or value
ProxyDicts(names, value) ==
    UNION {[keys -> {"", value}] :
             keys \in SUBSET {names[i] : i \in DOMAIN names}}

InitProxy ==
    /\ pydantic \in PydanticMajors
    /\ config \in {Update(Unset(SetConfig("v1"), {ProxyOptions[i] : i \in DOMAIN ProxyOptions}),
                             options) :
                      options \in ProxyDicts(ProxyOptions, "cfg.proxy")}
    /\ secret = Found(FullContent)
    /\ revisions = {}
    /\ dbRel = [active |-> TRUE,
                data |-> [username |-> "ruser", password |-> "rpass",
                          endpoints |-> <<"rhost", ":", "5432">>]]
    /\ redisRel = [active |-> TRUE, data |-> [hostname |-> "redis", port |-> "6379"]]
    /\ tracing = ""
    /\ loki = <<>>
    /\ osenv \in ProxyDicts(ProxyOverrides, "juju.proxy")
    /\ plan = EmptyPlan
    /\ proc = NoProc
    /\ last = Idle
    /\ since = NoCount
    /\ settled = FALSE

NextProxy == ReadEnvironment

ProxySpec == InitProxy /\ [][NextProxy]_vars

\* the reconciler while the Loki push endpoints come and go: resolved
\* dependencies, config changes and changes of the endpoint urls
LokiChoices ==
    {<<>>, <<"http://loki-a/push">>, <<"http://loki-b/push">>,
     <<"http://loki-a/push", "http://loki-b/push">>}

InitLoki == InitFair

\* the log-proxy relation gains, changes or loses endpoints
LokiChanged ==
    /\ ~settled
    /\ \E endpoints \in LokiChoices :
         /\ endpoints # loki
         /\ loki' = endpoints
    /\ InputChanged(config, secret, dbRel, redisRel)
    /\ UNCHANGED <<config, secret, revisions, dbRel, redisRel, tracing, osenv, plan, proc, settled, pydantic>>

NextLoki ==
    \/ LokiChanged
    \/ ConfigChanged
    \/ Reconcile

LokiSpec == InitLoki /\ [][NextLoki]_vars

\* _on_collect_status on its own: the inputs, the plan and the process are drawn
\* once and the status is collected. The plan is empty, or holds the 'app'
\* service without environment, or holds the layer the inputs ask for.
InitStatus ==
    /\ pydantic \in PydanticMajors
    /\ config \in {SetConfig(v) : v \in Vals}
                  \cup {Unset(SetConfig("v1"), {"log-level"})}
    /\ secret \in SecretDbChoices
    /\ revisions = {}
    /\ dbRel \in DbChoices
    /\ redisRel \in RedisChoices
    /\ tracing = ""
    /\ loki = <<>>
    /\ osenv = EmptyDict
    /\ \E layer \in {pebble_layer(config, secret, dbRel, redisRel, tracing, osenv, loki)} :
         plan \in {EmptyPlan,
                   [services |-> [app |-> AppService(EmptyDict)],
                    checks |-> LayerChecks, targets |-> EmptyDict]}
                  \cup (IF layer.raised = "" THEN {add_layer(EmptyPlan, layer.value)}
                        ELSE {})
    /\ proc \in {NoProc} \cup (IF "app" \in DOMAIN plan.services
                                THEN {Started(plan)} ELSE {})
    /\ last = Idle
    /\ since = NoCount
    /\ settled = FALSE

NextStatus == CollectStatus

StatusSpec == InitStatus /\ [][NextStatus]_vars

\* ------------------------------------------------------------- the claims
\* no add_layer, replan or restart among the calls of a handler
NoApply(calls) ==
    \A i \in DOMAIN calls : calls[i] \notin {"add_layer", "replan", "restart"}

Called(calls, name) == \E i \in DOMAIN calls : calls[i] = name

\* what the secret gives each field, as it is written in the content
Supplied == Renamed(secret.content)

\* the layer the inputs of the current state ask for
LayerNow == pebble_layer(config, secret, dbRel, redisRel, tracing, osenv, loki)

\* C1: when the reconciler has run at least twice since the inputs last changed
\* and no supervisor call failed in those runs, the latest run made no add_layer,
\* no replan and no restart.
C1_SecondReconcileIsNoOp ==
    (last.h = "reconcile" /\ since.runs >= 2 /\ since.clean) => NoApply(last.calls)

\* C2: a reconcile that built a layer and read the plan, while the secret
\* stayed as it was, calls add_layer exactly when the descriptor of the plan
\* (services and checks) differs from the one of the layer, follows a
\* successful add_layer by one replan or restart, and calls nothing but
\* get_plan and leaves the plan alone when they are equal.
C2_ApplyIffDiff ==
    (/\ last.h = "reconcile"
     /\ ~last.raced
     /\ last.calls # <<>>
     /\ ~(last.caught # "" /\ last.calls = <<"get_plan">>))
    => \E layer \in {LayerNow.value} :
         LET differs == \/ ~SameServices(last.before.services, layer.services)
                        \/ last.before.checks # layer.checks
         IN /\ differs <=> Called(last.calls, "add_layer")
            /\ ~differs => (last.calls = <<"get_plan">> /\ plan = last.before)
            /\ (differs /\ ~(last.caught # "" /\ Len(last.calls) = 2))
                 => (Len(last.calls) = 3 /\ last.calls[3] \in {"replan", "restart"})

\* a reconcile that replaced an applied environment by another one
C2_Witness ==
    /\ last.h = "reconcile"
    /\ ~last.raced
    /\ last.calls = <<"get_plan", "add_layer", "restart">>
    /\ last.caught = ""
    /\ "app" \in DOMAIN last.before.services
    /\ "environment" \in DOMAIN last.before.services["app"]
    /\ "environment" \in DOMAIN plan.services["app"]

\* the configuration is invalid or a dependency has no resolved data
Unresolved ==
    \/ ~config_valid_values(config, secret).valid
    \/ \E db_data \in {fetch_postgres_relation_data(config, secret, dbRel)} :
         db_data.raised = "" /\ DOMAIN db_data.value = {}
    \/ DOMAIN fetch_redis_relation_data(redisRel) = {}

\* C3: a reconcile run while the configuration is invalid or a dependency is
\* unresolved (and stays so while the handler runs) makes no add_layer, replan
\* or restart and leaves the plan as it was.
C3_NoChangeWhenUnresolved ==
    (last.h = "reconcile" /\ last.raised = "" /\ ~last.raced /\ Unresolved)
    => (NoApply(last.calls) /\ plan = last.before)

\* C4: after a reconcile in which a supervisor call failed, the plan is what it
\* was before the handler ran.
C4_UntouchedOnFault ==
    (last.h = "reconcile" /\ last.caught # "") => plan = last.before

\* the plan holds what the inputs ask for and the process was started with it
Converged ==
    \E desired \in {Desired(config, secret, dbRel, redisRel, tracing, osenv, loki)} :
      /\ "app" \in DOMAIN desired
      /\ plan.services = HeldServices(desired)
      /\ proc = [running |-> TRUE, service |-> HeldServices(desired)["app"]]

\* C5: once the inputs have stopped changing and the supervisor answers, the
\* deliveries of reconcile events lead to a plan that holds the desired
\* descriptor with the process replanned or restarted on it.
C5_ConvergesByRedelivery == settled ~> Converged

\* C6: after one environment variable changed its value in a converged state,
\* one or more reconciles without a supervisor fault have made exactly one
\* add_layer and exactly one replan or restart in total.
C6_ExactlyOneApply ==
    (since.single /\ since.clean /\ since.runs >= 1)
    => (since.adds = 1 /\ since.restarts = 1)

\* the status the priority scan of C7 asks for
C7_Expected ==
    IF ~config_valid_values(config, secret).valid THEN "Blocked:config"
    ELSE IF last.caught # "" THEN "Maintenance:pebble"
    ELSE IF ~dbRel.active THEN "Blocked:database"
    ELSE IF ~({"username", "password", "endpoints"} \subseteq DOMAIN dbRel.data)
    THEN "Waiting:database"
    ELSE IF ~redisRel.active THEN "Blocked:redis"
    ELSE IF ~({"hostname", "port"} \subseteq DOMAIN redisRel.data) THEN "Waiting:redis"
    ELSE IF ~proc.running THEN "Maintenance:service"
    ELSE "Active:"

\* the status a handler added, named as C7_Expected names it
StatusName(status) ==
    status.kind \o ":" \o
      (CASE status.message = "" -> ""
         [] status.message = "Waiting for Pebble in workload container" -> "pebble"
         [] status.message = "Waiting for database relation" -> "database"
         [] status.message = "Waiting for redis relation" -> "redis"
         [] status.message = "Waiting for the service to start up" -> "service"
         [] status.message = "Waiting relation to redis,  run 'juju relate redis-k8s:redis canonical-cla:redis'" -> "redis"
         [] status.message = "Waiting relation to database,  run 'juju integrate postgresql-k8s canonical-cla' or provide db secret" -> "database"
         [] OTHER -> "config")

\* C7: status collection, run on inputs that stay as they are, reports the
\* status of the first failing check of the scan: config, supervisor, database
\* relation, database data, redis relation, redis data, process run state.
C7_FirstFailingCheck ==
    (last.h = "collect-status" /\ ~last.raced)
    => (Len(last.statuses) = 1 /\ StatusName(last.statuses[1]) = C7_Expected)

\* C8: no handler ends in an exception it did not handle.
C8_NoFailureEscapes == last.raised = ""

\* the variable of the environment each database field of the secret stands for
DbVariable ==
    [f \in DbFields |->
        CASE f = "db_host" -> "DB_HOST"
          [] f = "db_port" -> "DB_PORT"
          [] f = "db_name" -> "DB_DATABASE"
          [] f = "db_username" -> "DB_USERNAME"
          [] f = "db_password" -> "DB_PASSWORD"]

\* C9: in a built environment, every database variable for which the secret
\* gives a non-empty value while the relation gives one too holds the value of
\* the secret.
C9_SecretPrecedence ==
    (/\ last.h = "app_environment"
     /\ last.raised = ""
     /\ ~last.raced
     /\ DOMAIN last.env # {}
     /\ dbRel.active
     /\ {"username", "password", "endpoints"} \subseteq DOMAIN dbRel.data)
    => \E parsed \in {Secret_parse(secret.content).value} :
         \A f \in DbFields :
           (f \in DOMAIN Supplied /\ Truthy(Supplied[f]))
              => Same(last.env[DbVariable[f]], parsed[f])

\* C10: a step changes the plan only as a reconcile that called add_layer on a
\* plan whose services differed from the layer's, changes the process only as a
\* reconcile that called replan or restart, and a status collection,
\* migrate-db or audit-logs step calls none of the three and changes neither.
C10_OnlyReconcileApplies ==
    [][/\ plan' # plan =>
            /\ last'.h = "reconcile"
            /\ Called(last'.calls, "add_layer")
            /\ last'.before = plan
            /\ ~last'.raced => ~SameServices(plan.services, LayerNow.value.services)
       /\ proc' # proc =>
            /\ last'.h = "reconcile"
            /\ (Called(last'.calls, "replan") \/ Called(last'.calls, "restart"))
       /\ last'.h \in {"collect-status", "migrate-db", "audit-logs"} =>
            /\ NoApply(last'.calls)
            /\ plan' = plan
            /\ proc' = proc]_vars

\* an operator action ended while a complete descriptor was applied and running
C10_Witness ==
    /\ last.h = "migrate-db"
    /\ last.result = "success"
    /\ proc.running
    /\ "environment" \in DOMAIN plan.services["app"]

\* C11: every run of the status collection handler adds exactly one status.
C11_ExactlyOneStatus ==
    last.h = "collect-status" => Len(last.statuses) = 1

\* C12: in a reconcile, a replan or restart comes only right after an add_layer
\* of the same run and at most once; an add_layer that succeeded is followed by
\* replan when the trigger is the pebble-ready event and by restart for every
\* other trigger.
C12_ReplanOrRestartAfterAdd ==
    last.h = "reconcile" =>
      /\ \A i \in DOMAIN last.calls :
           last.calls[i] \in {"replan", "restart"}
             => (i > 1 /\ last.calls[i - 1] = "add_layer")
      /\ Cardinality({i \in DOMAIN last.calls :
                         last.calls[i] \in {"replan", "restart"}}) <= 1
      /\ (Called(last.calls, "add_layer")
            /\ ~(last.caught # "" /\ last.calls[Len(last.calls)] = "add_layer"))
           => /\ last.calls[Len(last.calls) - 1] = "add_layer"
              /\ last.calls[Len(last.calls)] =
                   (IF last.event = "PebbleReadyEvent" THEN "replan" ELSE "restart")

\* a pebble-ready event that replaced an applied service and replanned
C12_Witness ==
    /\ last.h = "reconcile"
    /\ last.event = "PebbleReadyEvent"
    /\ last.caught = ""
    /\ last.calls = <<"get_plan", "add_layer", "replan">>
    /\ "app" \in DOMAIN last.before.services

\* C13: an operator action whose subprocess exited non-zero (ExecError) or that
\* the supervisor refused to run (ChangeError, APIError) ends as failed with a
\* failure message, never as a success, and adds no status.
C13_ActionFailureSurfaced ==
    (/\ last.h \in {"migrate-db", "audit-logs"}
     /\ last.outcome \in {"ExecError", "ChangeError", "APIError"})
    => /\ last.raised = ""
       /\ last.result = "failed"
       /\ last.message # ""
       /\ last.statuses = <<>>

\* the message of the BlockedStatus postgres_relation_blocked returns
DatabaseBlockedMessage ==
    "Waiting relation to database,  run 'juju integrate postgresql-k8s canonical-cla' or provide db secret"

\* C14: when the configuration is valid, the supervisor reported the 'app'
\* service and no database relation is active, status collection adds Blocked
\* with the message that names the database relation to create.
C14_NoDatabaseRelationBlocked ==
    (/\ last.h = "collect-status"
     /\ ~last.raced
     /\ config_valid_values(config, secret).valid
     /\ last.caught = ""
     /\ ~get_relation(dbRel))
    => last.statuses = <<[kind |-> "Blocked", message |-> DatabaseBlockedMessage]>>

\* the Blocked status while the secret holds all five database values
C14_Witness ==
    /\ last.h = "collect-status"
    /\ last.caught = ""
    /\ ~get_relation(dbRel)
    /\ DbFields \subseteq DOMAIN Supplied
    /\ get_relation(redisRel)
    /\ last.statuses = <<[kind |-> "Blocked", message |-> DatabaseBlockedMessage]>>

\* C15: in a non-empty built environment every variable holds the value of the
\* last stage that gives it, in the order config and secret, database and
\* redis (then the tracing endpoint), proxy, PYTHONPATH; no variable of any
\* stage is missing.
C15_LaterStageWins ==
    (last.h = "app_environment" /\ last.raised = "" /\ ~last.raced
       /\ DOMAIN last.env # {})
    => \E first \in {map_config_to_env_vars(config, secret).value},
          db_data \in {fetch_postgres_relation_data(config, secret, dbRel).value},
          redis_data \in {fetch_redis_relation_data(redisRel)},
          proxy_dict \in {get_proxy_dict(config, osenv)} :
         /\ DOMAIN last.env =
              DOMAIN first \cup DOMAIN db_data \cup DOMAIN redis_data
                \cup DOMAIN proxy_dict \cup {"PYTHONPATH"}
                \cup (IF tracing # "" THEN {"OTEL_EXPORTER_OTLP_ENDPOINT"} ELSE {})
         /\ \A K \in DOMAIN last.env :
              last.env[K] =
                IF K = "PYTHONPATH" THEN "/srv"
                ELSE IF K \in DOMAIN proxy_dict THEN proxy_dict[K]
                ELSE IF K = "OTEL_EXPORTER_OTLP_ENDPOINT" /\ tracing # "" THEN tracing
                ELSE IF K \in DOMAIN redis_data THEN redis_data[K]
                ELSE IF K \in DOMAIN db_data THEN db_data[K]
                ELSE first[K]

\* an environment built while the secret gives a database host, the relation
\* another, the config an empty http_proxy and the hook's process a proxy
C15_Witness ==
    /\ last.h = "app_environment"
    /\ "db_host" \in DOMAIN Supplied
    /\ config["http_proxy"] = ""
    /\ DOMAIN osenv # {}
    /\ DOMAIN last.env # {}
    /\ last.env["DB_HOST"] = "rhost"
    /\ last.env["PYTHONPATH"] = "/srv"
    /\ last.env["HTTP_PROXY"] = "http://proxy:3128"

\* the value the i-th proxy variable stands for: the config option when it is
\* not empty, else the variable of the hook's process, else ""
ProxyValue(i) ==
    IF GetOr(config, ProxyOptions[i], "") # ""
    THEN config[ProxyOptions[i]]
    ELSE GetOr(osenv, ProxyOverrides[i], "")

\* C16: a built environment holds none of HTTP_PROXY, HTTPS_PROXY, NO_PROXY when
\* the three options and the three overrides are all empty, and all three
\* otherwise, each with the option's value, else the override's, else "".
C16_ProxyAllOrNothing ==
    (last.h = "app_environment" /\ last.raised = "" /\ DOMAIN last.env # {})
    => IF \A i \in DOMAIN ProxyVariables : ProxyValue(i) = ""
       THEN \A i \in DOMAIN ProxyVariables : ProxyVariables[i] \notin DOMAIN last.env
       ELSE \A i \in DOMAIN ProxyVariables :
              /\ ProxyVariables[i] \in DOMAIN last.env
              /\ last.env[ProxyVariables[i]] = ProxyValue(i)

\* the variables every non-empty environment has to hold
DependencyVariables ==
    {"DB_HOST", "DB_PORT", "DB_USERNAME", "DB_PASSWORD", "DB_DATABASE",
     "REDIS_HOST", "REDIS_PORT", "PYTHONPATH"}

\* C17: in every state the 'app' service of the plan has no environment or one
\* that holds all the database and redis variables and PYTHONPATH, and the
\* environment app_environment returns for the inputs of the state is empty or
\* holds all of them.
C17_NoPartialEnvironment ==
    /\ "app" \in DOMAIN plan.services
         => \/ "environment" \notin DOMAIN plan.services["app"]
            \/ DependencyVariables \subseteq DOMAIN plan.services["app"]["environment"]
    /\ \E environment \in
           {app_environment(config, secret, dbRel, redisRel, tracing, osenv)} :
         \/ DOMAIN environment.value = {}
         \/ DependencyVariables \subseteq DOMAIN environment.value

\* a reconcile has just applied a service with a full environment
C17_Witness ==
    /\ last.h = "reconcile"
    /\ last.caught = ""
    /\ Called(last.calls, "add_layer")
    /\ "environment" \in DOMAIN plan.services["app"]
    /\ DependencyVariables \subseteq DOMAIN plan.services["app"]["environment"]
    /\ DOMAIN app_environment(config, secret, dbRel, redisRel, tracing, osenv).value # {}

\* C18: a reconcile that read the plan applies nothing and leaves the plan as it
\* was whenever the services of the plan equal those of the built layer,
\* whatever the log targets and checks are; the log targets of the plan change
\* only in a reconcile that called add_layer because the services differed.
C18_DiffCoversServicesOnly ==
    (/\ last.h = "reconcile"
     /\ ~last.raced
     /\ last.calls # <<>>
     /\ ~(last.caught # "" /\ last.calls = <<"get_plan">>))
    => \E layer \in {LayerNow.value} :
         /\ SameServices(last.before.services, layer.services)
              => (NoApply(last.calls) /\ plan = last.before)
         /\ plan.targets # last.before.targets
              => /\ Called(last.calls, "add_layer")
                 /\ ~SameServices(last.before.services, layer.services)

\* a reconcile that applied nothing although the log targets of the plan are not
\* those of the layer
C18_Witness ==
    /\ last.h = "reconcile"
    /\ last.caught = ""
    /\ last.calls = <<"get_plan">>
    /\ "app" \in DOMAIN plan.services
    /\ DOMAIN plan.targets # {}
    /\ DOMAIN LayerNow.value.targets # {}
    /\ plan.targets # LayerNow.value.targets

\* the secret gives a non-empty value for each of the five database fields
CompleteDbSecret ==
    \A f \in DbFields : f \in DOMAIN Supplied /\ Truthy(Supplied[f])

\* C19: with a complete database secret a status collection that reaches the
\* database checks reports neither the database Blocked nor the database
\* Waiting status, with or without a relation, and a built environment holds
\* the five values of the secret; with an incomplete one the database checks
\* and the environment are those of the relation alone.
C19_CompleteSecretReplacesRelation ==
    (/\ last.h = "collect-status"
     /\ ~last.raced
     /\ config_valid_values(config, secret).valid
     /\ last.caught = "")
    => \E environment \in
           {app_environment(config, secret, dbRel, redisRel, tracing, osenv)} :
         IF CompleteDbSecret
         THEN /\ last.raised = ""
              /\ Len(last.statuses) = 1
              /\ last.statuses[1].message
                    \notin {DatabaseBlockedMessage, "Waiting for database relation"}
              /\ DOMAIN environment.value # {}
                    => \A f \in DbFields :
                         Same(environment.value[DbVariable[f]],
                              Secret_parse(secret.content).value[f])
         ELSE /\ ~get_relation(dbRel)
                   => last.statuses =
                        <<[kind |-> "Blocked", message |-> DatabaseBlockedMessage]>>
              /\ DOMAIN environment.value # {}
                    => /\ environment.value["DB_HOST"] = "rhost"
                       /\ environment.value["DB_DATABASE"] = DATABASE_NAME

====
